---------------------------- MODULE Spec2Model ----------------------------
(***************************************************************************)
(* Product Bundle Calculator (src/anastasiia_dashboard.py).                *)
(*                                                                         *)
(* The Streamlit script is re-run from the top on every widget             *)
(* interaction.  The state that survives a run is the widget state         *)
(* (wohneinheiten, area_m2, new_typ) and st.session_state.einzelmassnahmen.*)
(* The values computed under the Calculate button live for one run only;   *)
(* they are kept in `result`, which every other interaction resets.        *)
(*                                                                         *)
(* Amounts.  Python mixes ints and binary64 floats (x * 0.8, x * 0.5,      *)
(* x * 0.03).  An amount is the pair <<c, e>> standing for the real number *)
(*        c / 100  +  e * U        with  U = 2^-55 / 100  euro,            *)
(* i.e. c whole cents plus the binary rounding residue e.  An int n is     *)
(* <<100 * n, 0>>.  Every float operation is the exact real operation      *)
(* followed by Round, round-to-nearest-even on the binary64 grid.          *)
(***************************************************************************)
EXTENDS Integers, Sequences, FiniteSets

MaxWE   == 51    \* largest wohneinheiten stepped to
MaxArea == 258   \* largest area_m2 entered
MaxLen  == 2     \* largest number of entries in einzelmassnahmen

VARIABLES wohneinheiten, area_m2, new_typ, einzelmassnahmen, clicked, result

vars == <<wohneinheiten, area_m2, new_typ, einzelmassnahmen, clicked, result>>

Typen == {"Heizung", "Other"}

\* values typed into the area field: both sides of each bracket edge and a
\* run of areas in the open-ended bracket
AreaInputs == {1, 100, 149, 150, 151, 249, 250} \cup 251..MaxArea

-----------------------------------------------------------------------------
(* binary64 arithmetic on amounts *)

\* 2^n for n in 0..29
Pow2Tab ==
    <<
       1, 2, 4, 8, 16, 32, 64, 128, 256, 512, 1024, 2048, 4096, 8192,
       16384, 32768, 65536, 131072, 262144, 524288, 1048576, 2097152,
       4194304, 8388608, 16777216, 33554432, 67108864, 134217728,
       268435456, 536870912
    >>

\* 2^n mod 200 for n in 1..60
Pow2Mod200Tab ==
    <<
       2, 4, 8, 16, 32, 64, 128, 56, 112, 24, 48, 96, 192, 184, 168, 136,
       72, 144, 88, 176, 152, 104, 8, 16, 32, 64, 128, 56, 112, 24, 48,
       96, 192, 184, 168, 136, 72, 144, 88, 176, 152, 104, 8, 16, 32, 64,
       128, 56, 112, 24, 48, 96, 192, 184, 168, 136, 72, 144, 88, 176
    >>

Pow2(n) == Pow2Tab[n + 1]

\* 2^n mod m for m dividing 200 and n in 1..60
Pow2Mod(n, m) == Pow2Mod200Tab[n] % m

\* E with 2^E <= value < 2^(E+1), for a value of at least one euro
Binade(c, e) ==
    LET E == CHOOSE x \in 0..20 : 100 * Pow2(x) <= c /\ c < 100 * Pow2(x + 1)
    IN  IF c = 100 * Pow2(E) /\ e < 0 THEN E - 1 ELSE E

\* Round, given the ulp of the binade and the offset r of c cents from the
\* grid point below it (both in U) and the parity p of that grid point
RoundOnGrid(c, e, ulp, r, p) ==
    LET T == (r + e) % ulp
    IN  IF 2 * T < ulp THEN <<c, e - T>>
        ELSE IF 2 * T > ulp THEN <<c, e - T + ulp>>
        ELSE IF (p + ((e - T + r) \div ulp)) % 2 = 0 THEN <<c, e - T>>
        ELSE <<c, e - T + ulp>>

RoundInBinade(c, e, E) ==
    RoundOnGrid(c, e, 100 * Pow2(E + 3),
                Pow2(E + 3) * (((c % 100) * Pow2Mod(52 - E, 100)) % 100),
                ((((c % 200) * Pow2Mod(52 - E, 200)) % 200)
                   - (((c % 100) * Pow2Mod(52 - E, 100)) % 100)) \div 100)

\* round the real number c/100 + e*U to the nearest binary64 value, ties to
\* an even significand.  One ulp in binade E is 2^(E-52) = 100 * 2^(E+3) U.
\* A whole number of quarter euros is on the grid of every binade used here.
Round(c, e) ==
    IF e = 0 /\ c % 25 = 0 THEN <<c, 0>>
    ELSE RoundInBinade(c, e, Binade(c, e))

FromInt(n) == <<100 * n, 0>>

FAdd(x, y) == Round(x[1] + y[1], x[2] + y[2])

FSub(x, y) == Round(x[1] - y[1], x[2] - y[2])

\* n * 0.8 : the double 0.8 is 4/5 + 160 U
FMul08(n) == Round(80 * n, 160 * n)

\* x * 0.5 : halving a binary64 value is exact
FHalf(x) == <<x[1] \div 2, x[2] \div 2>>

\* n * 0.03 : the double 0.03 is 3/100 - 4 U
FMul003(n) == Round(3 * n, (0 - 4) * n)

\* f"{x:.2f}" : the amount to the nearest cent, as a count of cents.  Half a
\* cent is 2^54 U and a residue never exceeds one ulp (below 2^31 U), so the
\* nearest cent is always c.
Fmt2(x) == x[1]

-----------------------------------------------------------------------------
(* the four price functions *)

\* variants of the code with one plausible slip each
calculate_heizlastberechnung_m1(a) ==
    IF a < 150 THEN <<FromInt(900), FromInt(720)>>
    ELSE IF a <= 250 THEN <<FromInt(1250), FromInt(1000)>>
    ELSE <<FromInt(1000 + (4 * a)), FMul08(1000 + (4 * a))>>

calculate_heizlastberechnung_m7(a) ==
    IF a <= 150 THEN <<FromInt(900), FromInt(750)>>
    ELSE IF a <= 250 THEN <<FromInt(1250), FromInt(1000)>>
    ELSE <<FromInt(1000 + (4 * a)), FMul08(1000 + (4 * a))>>

calculate_heizlastberechnung(a) ==
    IF a <= 150 THEN <<FromInt(900), FromInt(720)>>
    ELSE IF a <= 250 THEN <<FromInt(1250), FromInt(1000)>>
    ELSE <<FromInt(1000 + (4 * a)), FMul08(1000 + (4 * a))>>

calculate_hydraulischer_abgleich_m2(a) ==
    IF a <= 150 THEN <<FromInt(800), FromInt(640)>>
    ELSE IF a < 250 THEN <<FromInt(900), FromInt(720)>>
    ELSE <<FromInt(900 + (4 * a)), FMul08(900 + (4 * a))>>

calculate_hydraulischer_abgleich_m3(a) ==
    IF a <= 150 THEN <<FromInt(800), FromInt(800)>>
    ELSE IF a <= 250 THEN <<FromInt(900), FromInt(900)>>
    ELSE <<FromInt(900 + (4 * a)), FromInt(900 + (4 * a))>>

calculate_hydraulischer_abgleich(a) ==
    IF a <= 150 THEN <<FromInt(800), FromInt(640)>>
    ELSE IF a <= 250 THEN <<FromInt(900), FromInt(720)>>
    ELSE <<FromInt(900 + (4 * a)), FMul08(900 + (4 * a))>>

calculate_isfp_m5(w) ==
    LET os == IF w <= 2 THEN <<1300, 650>>
              ELSE IF w <= 9 THEN <<1700, 850>>
              ELSE IF w <= 19 THEN <<2290, 850>>
              ELSE IF w <= 29 THEN <<3940, 850>>
              ELSE IF w < 49 THEN <<4940, 850>>
              ELSE <<5940, 850>>
    IN  <<os[1], os[1] - os[2], os[2]>>

\* <<original_price, final_price, subsidy>>, ints
calculate_isfp(w) ==
    LET os == IF w <= 2 THEN <<1300, 650>>
              ELSE IF w <= 9 THEN <<1700, 850>>
              ELSE IF w <= 19 THEN <<2290, 850>>
              ELSE IF w <= 29 THEN <<3940, 850>>
              ELSE IF w <= 49 THEN <<4940, 850>>
              ELSE <<5940, 850>>
    IN  <<os[1], os[1] - os[2], os[2]>>

base_amount_m6(w, typ) ==
    IF typ = "Heizung"
    THEN IF w = 1 THEN 30000
         ELSE IF w <= 6 THEN 30000 + ((w - 1) * 15000)
         ELSE 30000 + (6 * 15000) + ((w - 6) * 8000)
    ELSE IF w <= 11 THEN 60000 * w
         ELSE 660000

base_amount(w, typ) ==
    IF typ = "Heizung"
    THEN IF w = 1 THEN 30000
         ELSE IF w <= 6 THEN 30000 + ((w - 1) * 15000)
         ELSE 30000 + (5 * 15000) + ((w - 6) * 8000)
    ELSE IF w <= 11 THEN 60000 * w
         ELSE 660000

calculate_antragstellung(w, typ) == FMul003(base_amount(w, typ))

-----------------------------------------------------------------------------
(* the body of "if st.button(Calculate Total Price)" *)

Forderung_m8(discounted) == FHalf(FHalf(discounted))

\* lines 136 and 141: the subsidy on a discounted price, discounted * 0.5
Forderung(discounted) == FHalf(discounted)

\* lines 148-165: the loop over st.session_state.einzelmassnahmen
RECURSIVE AntragLoop(_, _, _)
AntragLoop(w, list, acc) ==
    IF list = <<>> THEN acc
    ELSE LET typ              == Head(list)
             antrag_price     == calculate_antragstellung(w, typ)
             antrag_forderung == FHalf(antrag_price)
             antrag_final     == FSub(antrag_price, antrag_forderung)
         IN  AntragLoop(w, Tail(list),
               [original  |-> FAdd(acc.original, antrag_price),
                forderung |-> FAdd(acc.forderung, antrag_forderung),
                details   |-> Append(acc.details,
                                [Type      |-> typ,
                                 Original  |-> Fmt2(antrag_price),
                                 Forderung |-> Fmt2(antrag_forderung),
                                 Final     |-> Fmt2(antrag_final)])])

\* lines 219-227: one breakdown row per antrag_details entry, numbered from 1
AntragRows(details) ==
    [i \in 1..Len(details) |->
        [Product   |-> <<"Antragstellung", details[i].Type, i>>,
         Original  |-> details[i].Original,
         After     |-> details[i].Original,
         Forderung |-> details[i].Forderung,
         Final     |-> details[i].Final]]

CalculateTotalPrice(w, a, list) ==
    LET heiz            == calculate_heizlastberechnung(a)
        heiz_original   == heiz[1]
        heiz_discounted == heiz[2]
        heiz_forderung  == Forderung(heiz_discounted)
        heiz_final      == FSub(heiz_discounted, heiz_forderung)
        hydr            == calculate_hydraulischer_abgleich(a)
        hydr_original   == hydr[1]
        hydr_discounted == hydr[2]
        hydr_forderung  == Forderung(hydr_discounted)
        hydr_final      == FSub(hydr_discounted, hydr_forderung)
        isfp            == calculate_isfp(w)
        isfp_original   == FromInt(isfp[1])
        isfp_final      == FromInt(isfp[2])
        isfp_subsidy    == FromInt(isfp[3])
        antrag          == AntragLoop(w, list,
                             [original |-> FromInt(0), forderung |-> FromInt(0),
                              details |-> <<>>])
        antrag_total_original  == antrag.original
        antrag_total_forderung == antrag.forderung
        antrag_total_final     == FSub(antrag_total_original, antrag_total_forderung)
    IN  [shown            |-> TRUE,
         heiz_original    |-> heiz_original,
         heiz_discounted  |-> heiz_discounted,
         heiz_forderung   |-> heiz_forderung,
         heiz_final       |-> heiz_final,
         hydr_original    |-> hydr_original,
         hydr_discounted  |-> hydr_discounted,
         hydr_forderung   |-> hydr_forderung,
         hydr_final       |-> hydr_final,
         isfp_original    |-> isfp_original,
         isfp_final       |-> isfp_final,
         isfp_subsidy     |-> isfp_subsidy,
         antrag_details          |-> antrag.details,
         antrag_total_original   |-> antrag_total_original,
         antrag_total_forderung  |-> antrag_total_forderung,
         antrag_total_final      |-> antrag_total_final,
         total_original   |-> FAdd(FAdd(FAdd(heiz_original, hydr_original),
                                        isfp_original), antrag_total_original),
         total_discounts  |-> FAdd(FSub(heiz_original, heiz_discounted),
                                   FSub(hydr_original, hydr_discounted)),
         total_forderung  |-> FAdd(FAdd(FAdd(heiz_forderung, hydr_forderung),
                                        isfp_subsidy), antrag_total_forderung),
         total_full_price |-> FAdd(FAdd(FAdd(heiz_discounted, hydr_discounted),
                                        isfp_final), antrag_total_original),
         total_user_pays  |-> FAdd(FAdd(FAdd(heiz_final, hydr_final),
                                        isfp_final), antrag_total_final),
         breakdown_data   |->
            <<[Product |-> <<"Heizlastberechnung", "", 0>>,
               Original |-> Fmt2(heiz_original), After |-> Fmt2(heiz_discounted),
               Forderung |-> Fmt2(heiz_forderung), Final |-> Fmt2(heiz_final)],
              [Product |-> <<"Hydraulischer Abgleich", "", 0>>,
               Original |-> Fmt2(hydr_original), After |-> Fmt2(hydr_discounted),
               Forderung |-> Fmt2(hydr_forderung), Final |-> Fmt2(hydr_final)],
              [Product |-> <<"iSFP", "", 0>>,
               Original |-> Fmt2(isfp_original), After |-> Fmt2(isfp_original),
               Forderung |-> Fmt2(isfp_subsidy), Final |-> Fmt2(isfp_final)]>>
            \o AntragRows(antrag.details)]

\* a run in which the Calculate button was not clicked renders no results
NoResult == [shown |-> FALSE]

-----------------------------------------------------------------------------
(* the script as a state machine: one action per widget interaction *)

Pop_m10(list, i) == SubSeq(list, 1, Len(list) - 1)

\* list.pop(i), i counted from 0
Pop(list, i) == SubSeq(list, 1, i) \o SubSeq(list, i + 2, Len(list))

Init ==
    /\ wohneinheiten = 1
    /\ area_m2 = 100
    /\ new_typ = "Heizung"
    /\ einzelmassnahmen = <<>>
    /\ clicked = <<"none", 0>>
    /\ result = NoResult

\* st.number_input("Number of Wohneinheiten", min_value=1, value=1, step=1):
\* the widget's minus and plus buttons
StepWohneinheiten ==
    /\ \E n \in {wohneinheiten - 1, wohneinheiten + 1} :
          /\ n >= 1
          /\ n <= MaxWE
          /\ wohneinheiten' = n
    /\ clicked' = <<"input", 0>>
    /\ result' = NoResult
    /\ UNCHANGED <<area_m2, new_typ, einzelmassnahmen>>

\* st.number_input("Area (m2)", min_value=1, value=100, step=1):
\* a value typed into the field
SetArea ==
    /\ \E n \in AreaInputs : n # area_m2 /\ area_m2' = n
    /\ clicked' = <<"input", 0>>
    /\ result' = NoResult
    /\ UNCHANGED <<wohneinheiten, new_typ, einzelmassnahmen>>

\* st.selectbox("Select Type", ["Heizung", "Other"], key="new_typ")
SelectType ==
    /\ \E typ \in Typen : typ # new_typ /\ new_typ' = typ
    /\ clicked' = <<"input", 0>>
    /\ result' = NoResult
    /\ UNCHANGED <<wohneinheiten, area_m2, einzelmassnahmen>>

\* st.button("Add Einzelmassnahme"), then st.rerun()
AddEinzelmassnahme ==
    /\ Len(einzelmassnahmen) < MaxLen
    /\ einzelmassnahmen' = Append(einzelmassnahmen, new_typ)
    /\ clicked' = <<"add", 0>>
    /\ result' = NoResult
    /\ UNCHANGED <<wohneinheiten, area_m2, new_typ>>

\* st.button("Clear All"), then st.rerun()
ClearAll ==
    /\ einzelmassnahmen' = <<>>
    /\ clicked' = <<"clear", 0>>
    /\ result' = NoResult
    /\ UNCHANGED <<wohneinheiten, area_m2, new_typ>>

\* st.button("Remove", key=f"remove_{i}"), then st.rerun()
Remove ==
    /\ \E i \in 0..(Len(einzelmassnahmen) - 1) :
          /\ einzelmassnahmen' = Pop(einzelmassnahmen, i)
          /\ clicked' = <<"remove", i>>
    /\ result' = NoResult
    /\ UNCHANGED <<wohneinheiten, area_m2, new_typ>>

\* st.button("Calculate Total Price")
Calculate ==
    /\ result' = CalculateTotalPrice(wohneinheiten, area_m2, einzelmassnahmen)
    /\ clicked' = <<"calculate", 0>>
    /\ UNCHANGED <<wohneinheiten, area_m2, new_typ, einzelmassnahmen>>

Next ==
    \/ StepWohneinheiten
    \/ SetArea
    \/ SelectType
    \/ AddEinzelmassnahme
    \/ ClearAll
    \/ Remove
    \/ Calculate

Spec == Init /\ [][Next]_vars

TypeOK ==
    /\ wohneinheiten \in 1..MaxWE
    /\ area_m2 \in 1..MaxArea
    /\ new_typ \in Typen
    /\ einzelmassnahmen \in Seq(Typen)
    /\ Len(einzelmassnahmen) <= MaxLen

-----------------------------------------------------------------------------
(* properties *)

Shown == result.shown

\* 0.8 * x for an amount x of whole euros, as Python evaluates it
Times08(x) == FMul08(x[1] \div 100)

Brackets(a, low, mid, high) ==
    IF a <= 150 THEN low ELSE IF a <= 250 THEN mid ELSE high

\* C1 as stated: the Heat-Load original price is 900 up to 150 m2, 1250 up to
\* 250 m2 and 1000 + 4 * (area - 250) above 250 m2.
Orig_C1 ==
    Shown => result.heiz_original
               = FromInt(Brackets(area_m2, 900, 1250, 1000 + 4 * (area_m2 - 250)))

\* C1 amended: the Heat-Load original price is 900 up to 150 m2, 1250 up to
\* 250 m2 and 1000 + 4 * area above 250 m2.
Thm_C1 ==
    Shown => result.heiz_original
               = FromInt(Brackets(area_m2, 900, 1250, 1000 + 4 * area_m2))

Wit_C1 == Shown /\ area_m2 > 250 /\ result.heiz_original = FromInt(2004)

\* C2 as stated: the Hydraulic-Balancing original price is 800 up to 150 m2,
\* 900 up to 250 m2 and 900 + 4 * (area - 250) above 250 m2.
Orig_C2 ==
    Shown => result.hydr_original
               = FromInt(Brackets(area_m2, 800, 900, 900 + 4 * (area_m2 - 250)))

\* C2 amended: the Hydraulic-Balancing original price is 800 up to 150 m2,
\* 900 up to 250 m2 and 900 + 4 * area above 250 m2.
Thm_C2 ==
    Shown => result.hydr_original
               = FromInt(Brackets(area_m2, 800, 900, 900 + 4 * area_m2))

Wit_C2 == Shown /\ area_m2 > 250 /\ result.hydr_original = FromInt(1904)

\* C3 as stated: in every calculated bundle exactly one of Heat-Load and
\* Hydraulic-Balancing has discounted = 0.8 * original and the other has
\* discounted = original.
Orig_C3 ==
    Shown =>
      \/ /\ result.heiz_discounted = Times08(result.heiz_original)
         /\ result.hydr_discounted = result.hydr_original
      \/ /\ result.heiz_discounted = result.heiz_original
         /\ result.hydr_discounted = Times08(result.hydr_original)

\* C3 amended: in every calculated bundle the Energy Plan is included and both
\* Heat-Load and Hydraulic-Balancing are discounted to 0.8 * original; neither
\* is ever left at its original price.
Thm_C3 ==
    Shown =>
      /\ result.isfp_original[1] > 0
      /\ result.heiz_discounted = Times08(result.heiz_original)
      /\ result.hydr_discounted = Times08(result.hydr_original)
      /\ result.heiz_discounted # result.heiz_original
      /\ result.hydr_discounted # result.hydr_original

Wit_C3 ==
    /\ Shown
    /\ result.heiz_discounted = FromInt(720)
    /\ result.hydr_discounted = FromInt(640)

\* C4 as stated: total full price = Heat-Load discounted + Hydraulic-Balancing
\* discounted + Energy-Plan original + measure-application prices, total
\* subsidy = sum of the subsidies, total user pays = sum of the final prices;
\* for 1 unit, 100 m2 and no measures these are 2820, 1410 and 1410.
Claim_C4 ==
    Shown =>
      /\ result.total_full_price
           = FAdd(FAdd(FAdd(result.heiz_discounted, result.hydr_discounted),
                       result.isfp_original), result.antrag_total_original)
      /\ result.total_forderung
           = FAdd(FAdd(FAdd(result.heiz_forderung, result.hydr_forderung),
                       result.isfp_subsidy), result.antrag_total_forderung)
      /\ result.total_user_pays
           = FAdd(FAdd(FAdd(result.heiz_final, result.hydr_final),
                       result.isfp_final), result.antrag_total_final)
      /\ (wohneinheiten = 1 /\ area_m2 = 100 /\ einzelmassnahmen = <<>>) =>
            /\ result.total_full_price = FromInt(2820)
            /\ result.total_forderung = FromInt(1410)
            /\ result.total_user_pays = FromInt(1410)

\* C5: calculate_isfp returns (original, subsidy) = (1300,650) up to 2 units,
\* (1700,850) for 3..9, (2290,850) for 10..19, (3940,850) for 20..29,
\* (4940,850) for 30..49, (5940,850) from 50 on, and final = original - subsidy.
Thm_C5 ==
    Shown =>
      LET w == wohneinheiten
          claimed == IF w <= 2 THEN <<1300, 650>>
                     ELSE IF w \in 3..9 THEN <<1700, 850>>
                     ELSE IF w \in 10..19 THEN <<2290, 850>>
                     ELSE IF w \in 20..29 THEN <<3940, 850>>
                     ELSE IF w \in 30..49 THEN <<4940, 850>>
                     ELSE <<5940, 850>>
      IN  /\ result.isfp_original = FromInt(claimed[1])
          /\ result.isfp_subsidy = FromInt(claimed[2])
          /\ result.isfp_final = FromInt(claimed[1] - claimed[2])

Wit_C5 == Shown /\ wohneinheiten >= 50 /\ result.isfp_final = FromInt(5090)

ClaimedBase(w, typ) ==
    IF typ = "Heizung"
    THEN IF w = 1 THEN 30000
         ELSE IF w \in 2..6 THEN 30000 + 15000 * (w - 1)
         ELSE 105000 + 8000 * (w - 6)
    ELSE IF w <= 11 THEN 60000 * w ELSE 660000

\* C6: every measure-application price is exactly 3% of the base amount, the
\* base being 30000 / 30000 + 15000 * (units - 1) / 105000 + 8000 * (units - 6)
\* for Heizung and 60000 * units capped at 660000 for Other.
Thm_C6 ==
    Shown =>
      \A i \in 1..Len(einzelmassnahmen) :
        LET base == ClaimedBase(wohneinheiten, einzelmassnahmen[i])
        IN  /\ calculate_antragstellung(wohneinheiten, einzelmassnahmen[i])
                 = <<3 * base, 0>>
            /\ result.antrag_details[i].Original = 3 * base

Wit_C6 ==
    /\ Shown
    /\ wohneinheiten >= 12
    /\ einzelmassnahmen = <<"Heizung", "Other">>
    /\ result.antrag_details[2].Original = 1980000

\* C7: in every area bracket, the hard-coded ones included, the discounted
\* price of Heat-Load and of Hydraulic-Balancing equals 0.8 * original (the
\* code applies the discount in every calculation).
Thm_C7 ==
    Shown =>
      /\ result.heiz_discounted = Times08(result.heiz_original)
      /\ result.hydr_discounted = Times08(result.hydr_original)
      /\ area_m2 <= 250 =>
            /\ 10 * result.heiz_discounted[1] = 8 * result.heiz_original[1]
            /\ 10 * result.hydr_discounted[1] = 8 * result.hydr_original[1]
            /\ result.heiz_discounted[2] = 0
            /\ result.hydr_discounted[2] = 0

Wit_C7 ==
    /\ Shown
    /\ area_m2 \in 151..250
    /\ result.heiz_discounted = FromInt(1000)
    /\ result.hydr_discounted = FromInt(720)

\* x is exactly half of y, as real numbers
IsHalfOf(x, y) == 2 * x[1] = y[1] /\ 2 * x[2] = y[2]

\* z is exactly x - y, as real numbers
IsDifference(z, x, y) == z[1] = x[1] - y[1] /\ z[2] = x[2] - y[2]

\* C8: the subsidy on Heat-Load and on Hydraulic-Balancing is exactly 50% of
\* the discounted price (not of the original), the final price is exactly
\* discounted - subsidy, and it is not negative.
Thm_C8 ==
    Shown =>
      /\ IsHalfOf(result.heiz_forderung, result.heiz_discounted)
      /\ IsHalfOf(result.hydr_forderung, result.hydr_discounted)
      /\ ~IsHalfOf(result.heiz_forderung, result.heiz_original)
      /\ ~IsHalfOf(result.hydr_forderung, result.hydr_original)
      /\ IsDifference(result.heiz_final, result.heiz_discounted, result.heiz_forderung)
      /\ IsDifference(result.hydr_final, result.hydr_discounted, result.hydr_forderung)
      /\ result.heiz_final[1] >= 0
      /\ result.hydr_final[1] >= 0

Wit_C8 ==
    /\ Shown
    /\ area_m2 > 250
    /\ result.heiz_discounted[2] # 0
    /\ result.heiz_final = result.heiz_forderung

\* C9: total_user_pays + total_forderung = total_original - total_discounts,
\* as Python evaluates the two sides.
Claim_C9 ==
    Shown => FAdd(result.total_user_pays, result.total_forderung)
               = FSub(result.total_original, result.total_discounts)

\* one step of the session list, told by the widget that was clicked
ListStep ==
    LET old == einzelmassnahmen
        new == einzelmassnahmen'
        op  == clicked'[1]
        arg == clicked'[2]
    IN  /\ op = "add" =>
              /\ Len(new) = Len(old) + 1
              /\ \A j \in 1..Len(old) : new[j] = old[j]
              /\ new[Len(new)] = new_typ
        /\ op = "remove" =>
              /\ arg \in 0..(Len(old) - 1)
              /\ Len(new) = Len(old) - 1
              /\ \A j \in 1..Len(new) :
                    new[j] = IF j <= arg THEN old[j] ELSE old[j + 1]
        /\ op = "clear" => new = <<>>
        /\ op = "input" => new = old
        /\ op = "calculate" =>
              /\ new = old
              /\ Len(result'.antrag_details) = Len(old)
              /\ Len(result'.breakdown_data) = 3 + Len(old)
              /\ \A j \in 1..Len(old) :
                    /\ result'.antrag_details[j].Type = old[j]
                    /\ result'.breakdown_data[3 + j].Product
                          = <<"Antragstellung", old[j], j>>
        /\ op \in {"add", "remove", "clear", "input", "calculate"}
        /\ \A j \in 1..Len(new) : new[j] \in Typen

\* C10: Add appends the selected type at the end, Remove(i) deletes only the
\* entry at index i, Clear All empties the list, every entry is Heizung or
\* Other, and Calculate leaves the list unchanged and produces one application
\* quote per entry, in list order.
Thm_C10 == [][ListStep]_vars

Wit_C10 ==
    /\ clicked = <<"remove", 0>>
    /\ einzelmassnahmen = <<"Other">>

====
